---- MODULE Spec2Model ----
(***************************************************************************)
(* A model of src/script.js: class MediaDownloader, the browser-side       *)
(* download orchestrator.  One long-lived instance holds the current       *)
(* platform and the history array; startDownload is an async function, so  *)
(* each invocation is an activation that is suspended at its awaits (the   *)
(* POST /download, each GET /status/<id>, the polling delay) while other   *)
(* event handlers run.  JavaScript is single threaded: every action below  *)
(* is one run-to-completion step, from an event or a resumed await to the  *)
(* next await or return.                                                   *)
(***************************************************************************)
EXTENDS Integers, Sequences, FiniteSets, TLC

----------------------------------------------------------------------------
(* Bounds of the model *)

\* startDownload invocations (accepted or rejected) in one page session
MaxActs == 2
\* status requests the backend serves in one page session; from then on it
\* answers terminally and accepts no job
MaxGets == 4
\* addDownload calls in the history-store specification SpecHistory
MaxCommits == 12

(* Program constant: the history capacity of addDownload *)
MaxHistory == 10

Acts == 1..MaxActs

----------------------------------------------------------------------------
(* URLs are sequences of tokens; " " is a whitespace character *)

SP == " "
SpotifyUrl == <<"https://", "open.", "spotify.com", "/track", "/abc">>
YoutubeUrl == <<"https://", "www.", "youtube.com", "/watch", "?v=1">>

\* what the user may have typed into #urlInput
UrlInputs == { <<>>, <<SP>>, <<SP>> \o SpotifyUrl \o <<SP>>, YoutubeUrl }

\* String.prototype.trim: strip leading and trailing whitespace
RECURSIVE TrimLeft(_)
TrimLeft(s) == IF s # <<>> /\ Head(s) = SP THEN TrimLeft(Tail(s)) ELSE s

RECURSIVE TrimRight(_)
TrimRight(s) ==
    IF s # <<>> /\ s[Len(s)] = SP THEN TrimRight(SubSeq(s, 1, Len(s) - 1)) ELSE s

Trim(s) == TrimRight(TrimLeft(s))

\* RegExp.prototype.test for a pattern that is an alternation of literals:
\* some alternative occurs as a contiguous piece of the url
Occurs(lit, url) ==
    \E i \in 1..(Len(url) - Len(lit) + 1) : SubSeq(url, i, i + Len(lit) - 1) = lit

RegexTest(alts, url) == \E lit \in alts : Occurs(lit, url)

KnownPlatforms == {"spotify", "youtube-audio", "youtube-video", "tiktok", "twitter"}

\* names every object literal inherits from Object.prototype: patterns[name]
\* is then a function or object without a test method
InheritedKeys == {"constructor", "toString"}

\* the data-platform values of the buttons the user may click
SelectablePlatforms == {"spotify", "youtube-audio"}

Patterns(p) ==
    CASE p = "spotify" ->
           { <<"spotify.com", "/track">>, <<"spotify.com", "/album">>,
             <<"spotify.com", "/playlist">> }
      [] p \in {"youtube-audio", "youtube-video"} ->
           { <<"youtube.com", "/watch">>, <<"youtu.be/">> }
      [] p = "tiktok" -> { <<"tiktok.com">> }
      [] p = "twitter" -> { <<"twitter.com">>, <<"x.com">> }
      [] OTHER -> {}

\* a validateUrl that tests the url against every platform's pattern
validateUrlAnyPlatform(platform, url) ==
    IF \E p \in KnownPlatforms : RegexTest(Patterns(p), url) THEN "true" ELSE "false"

\* validateUrl: "true" / "false", or "TypeError" when patterns[platform] is an
\* inherited member (?. only guards against null and undefined)
validateUrl(platform, url) ==
    IF platform \in KnownPlatforms
    THEN (IF RegexTest(Patterns(platform), url) THEN "true" ELSE "false")
    ELSE IF platform \in InheritedKeys THEN "TypeError" ELSE "false"

----------------------------------------------------------------------------
(* History records and their JSON form *)

Undefined == "undefined"

\* JSON.stringify of one record: a property whose value is undefined is left out
StringifyRecord(d) ==
    IF d.outputPath = Undefined
    THEN [title |-> d.title, platform |-> d.platform, url |-> d.url,
          files |-> d.files, timestamp |-> d.timestamp]
    ELSE [title |-> d.title, platform |-> d.platform, url |-> d.url,
          outputPath |-> d.outputPath, files |-> d.files, timestamp |-> d.timestamp]

\* JSON.parse of one record: reading the missing property gives undefined
ParseRecord(j) ==
    [title |-> j.title, platform |-> j.platform, url |-> j.url,
     outputPath |-> IF "outputPath" \in DOMAIN j THEN j.outputPath ELSE Undefined,
     files |-> j.files, timestamp |-> j.timestamp]

Stringify(ds) == [i \in 1..Len(ds) |-> StringifyRecord(ds[i])]
Parse(js) == [i \in 1..Len(js) |-> ParseRecord(js[i])]

\* localStorage['downloads']: absent, a string this program wrote, or a string
\* JSON.parse rejects
StoreAbsent == [kind |-> "absent", val |-> <<>>]
StoreCorrupt == [kind |-> "corrupt", val |-> <<>>]
StoreJson(js) == [kind |-> "json", val |-> js]

\* the record an earlier page session committed at time t
OldRecord(t) ==
    [title |-> "Old", platform |-> "spotify", url |-> SpotifyUrl,
     outputPath |-> Undefined, files |-> <<>>, timestamp |-> t]

\* the history an earlier page session left after n commits, newest first
OldHistory(n) == [i \in 1..n |-> OldRecord(n + 1 - i)]

\* what localStorage may hold when the page loads: nothing, a broken string,
\* or the history of an earlier session that is one record short of full
InitialStores ==
    {StoreAbsent, StoreCorrupt, StoreJson(Stringify(OldHistory(MaxHistory - 1)))}

----------------------------------------------------------------------------
(* Backend responses *)

\* a property of a parsed JSON object, or the default when it is missing
\* (status.title || 'Downloaded Media', status.files || [])
OrElse(obj, key, default) == IF key \in DOMAIN obj THEN obj[key] ELSE default

\* outcomes of POST /download: a 2xx with {download_id}, a non-2xx with {error},
\* a rejected promise (fetch fails, or response.json() fails on the body)
PostResponses ==
    { [kind |-> "ok"],
      [kind |-> "httpError", error |-> "unsupported url"],
      [kind |-> "reject", error |-> "Failed to fetch"] }

\* outcomes of GET /status/<id>: a parsed body, or a rejected promise (fetch
\* fails, or response.json() fails on the body)
StatusBodies ==
    { [status |-> "processing"],
      [status |-> "completed", title |-> "Song", files |-> <<"song.mp3">>],
      [status |-> "error", error |-> "download failed"] }

StatusResponses ==
    { [kind |-> "ok", body |-> b] : b \in StatusBodies } \cup
    { [kind |-> "reject", error |-> "Failed to fetch"] }

Terminal(r) ==
    IF r.kind = "reject" THEN TRUE ELSE r.body.status \in {"completed", "error"}

Completed(r) == IF r.kind = "reject" THEN FALSE ELSE r.body.status = "completed"

----------------------------------------------------------------------------
(* State *)

VARIABLES
    app,              \* "boot": before new MediaDownloader(); "ready": init() ran;
                      \* "crashed": the constructor threw
    currentPlatform,  \* this.currentPlatform
    urlInput,         \* #urlInput.value
    btnDisabled,      \* #downloadBtn.disabled
    downloads,        \* this.downloads, newest first
    storage,          \* localStorage['downloads']
    domList,          \* the records #downloadsList shows
    clock,            \* the time new Date() reads, advanced by each commit
    nActs,            \* startDownload invocations so far
    acts,             \* the activations of startDownload, by invocation number
    statusLog         \* #statusLog, split by emitter: 0 is init(), a > 0 is activation a

vars == <<app, currentPlatform, urlInput, btnDisabled, downloads, storage,
          domList, clock, nActs, acts, statusLog>>

\* an activation that has not been invoked yet
NoAct ==
    [pc |-> "free", url |-> <<>>, validated |-> "none",
     platform |-> "none", posts |-> 0, gets |-> 0, committed |-> 0,
     outcome |-> "none"]

Active(a) == acts[a].pc \in {"post", "get", "delay"}

\* status requests sent so far
RECURSIVE SumGets(_)
SumGets(n) == IF n = 0 THEN 0 ELSE acts[n].gets + SumGets(n - 1)

TotalGets == SumGets(MaxActs)

Idle == \A a \in Acts : ~Active(a)

Ev(type, msg) == [type |-> type, msg |-> msg]

\* logStatus(message, type): append one entry
logStatus(log, who, msg, type) == [log EXCEPT ![who] = Append(@, Ev(type, msg))]

----------------------------------------------------------------------------
(* The history store *)

\* a store that appends at the tail (push) instead of inserting at the head
Push(ds, d) == ds \o <<d>>

\* Array.prototype.unshift
Unshift(ds, d) == <<d>> \o ds

\* a store that never drops a record
NoTruncate(ds) == ds

\* if (length > 10) downloads = downloads.slice(0, 10)
Truncate(ds) == IF Len(ds) > MaxHistory THEN SubSeq(ds, 1, MaxHistory) ELSE ds

\* localStorage.setItem('downloads', JSON.stringify(ds)); it throws
\* (QuotaExceededError) when the browser refuses the write
setItem(store, ds, writeOk) == IF writeOk THEN StoreJson(Stringify(ds)) ELSE store

\* addDownload(data): the statements run in order, so a throwing setItem leaves
\* the array changed and the list not rendered again
addDownload(data, writeOk) ==
    /\ downloads' = Truncate(Unshift(downloads, data))
    /\ storage' = setItem(storage, downloads', writeOk)
    /\ domList' = IF writeOk THEN downloads' ELSE domList
    /\ clock' = clock + 1

\* the downloadData object pollDownloadStatus builds from a completed status
DownloadData(status, platform, url, now) ==
    [title |-> OrElse(status, "title", "Downloaded Media"),
     platform |-> platform,
     url |-> url,
     outputPath |-> OrElse(status, "output_path", Undefined),
     files |-> OrElse(status, "files", <<>>),
     timestamp |-> now]

----------------------------------------------------------------------------
(* Page load *)

Init ==
    /\ app = "boot"
    /\ currentPlatform = "none"
    /\ urlInput = <<>>
    /\ btnDisabled = FALSE
    /\ downloads = <<>>
    /\ storage \in InitialStores
    /\ domList = <<>>
    /\ clock = Len(storage.val)
    /\ nActs = 0
    /\ acts = [a \in Acts |-> NoAct]
    /\ statusLog = [w \in 0..MaxActs |-> <<>>]

\* JSON.parse throws a SyntaxError on a string that is not JSON
ParseThrows(store) == store.kind = "corrupt"

\* JSON.parse(localStorage.getItem('downloads') || '[]')
LoadDownloads(store) == IF store.kind = "json" THEN Parse(store.val) ELSE <<>>

\* new MediaDownloader(): the constructor, and init() when the constructor gets
\* that far (bindEvents, updateDownloadsList, the first log line)
Construct ==
    /\ app = "boot"
    /\ currentPlatform' = "spotify"
    /\ IF ParseThrows(storage)
       THEN /\ app' = "crashed"
            /\ UNCHANGED <<downloads, domList, statusLog>>
       ELSE /\ app' = "ready"
            /\ downloads' = LoadDownloads(storage)
            /\ domList' = downloads'
            /\ statusLog' = logStatus(statusLog, 0, <<"Media Downloader initialized">>, "info")
    /\ UNCHANGED <<urlInput, btnDisabled, storage, clock, nActs, acts>>

----------------------------------------------------------------------------
(* User events; the listeners exist once init() has run bindEvents *)

\* a click on a .platform-btn
selectPlatform(platform) ==
    /\ app = "ready"
    /\ currentPlatform' = platform
    /\ UNCHANGED <<app, urlInput, btnDisabled, downloads, storage, domList, clock,
                   nActs, acts, statusLog>>

\* startDownload returns early: one error line, nothing else
RejectSubmission(a, msg) ==
    /\ statusLog' = logStatus(statusLog, a, msg, "error")
    /\ acts' = [acts EXCEPT ![a] = [NoAct EXCEPT !.pc = "done", !.outcome = "rejected"]]
    /\ UNCHANGED btnDisabled

\* validateUrl threw: the promise of startDownload rejects, nothing is logged
ThrowFromValidate(a) ==
    /\ acts' = [acts EXCEPT ![a] = [NoAct EXCEPT !.pc = "done", !.outcome = "threw"]]
    /\ UNCHANGED <<statusLog, btnDisabled>>

\* a submission whose request is built after a yield, with whatever platform
\* is selected by then
AcceptSubmissionLateRead(a, url) ==
    /\ btnDisabled' = TRUE
    /\ \E p \in SelectablePlatforms :
           acts' = [acts EXCEPT ![a] =
               [NoAct EXCEPT !.pc = "post", !.url = url, !.validated = currentPlatform,
                             !.platform = p, !.posts = 1]]
    /\ UNCHANGED statusLog

\* the button is disabled and simulateDownload sends POST /download with
\* {url, platform: this.currentPlatform}; the activation waits for the answer
AcceptSubmission(a, url) ==
    /\ btnDisabled' = TRUE
    /\ acts' = [acts EXCEPT ![a] =
           [NoAct EXCEPT !.pc = "post", !.url = url, !.validated = currentPlatform,
                         !.platform = currentPlatform, !.posts = 1]]
    /\ UNCHANGED statusLog

\* startDownload() up to its first await or its return: activation a is the
\* nActs+1-th invocation.  typed is the text of #urlInput when the handler
\* runs: typing runs no code of the program, so the user's edits since the
\* last handler are taken together with the event that reads them.
startDownload(a, typed) ==
    LET url == Trim(typed)
        valid == validateUrl(currentPlatform, url)
    IN
    /\ a = nActs + 1
    /\ nActs' = a
    /\ urlInput' = typed
    /\ IF url = <<>> THEN RejectSubmission(a, <<"Please enter a URL">>)
       ELSE IF valid = "TypeError" THEN ThrowFromValidate(a)
       ELSE IF valid = "false"
       THEN RejectSubmission(a, <<"Invalid URL for selected platform">>)
       ELSE AcceptSubmission(a, url)
    /\ UNCHANGED <<app, currentPlatform, downloads, storage, domList, clock>>

\* a click on #downloadBtn; a disabled button dispatches no click event
ClickDownload(a, typed) ==
    /\ app = "ready"
    /\ ~btnDisabled
    /\ startDownload(a, typed)

\* a keypress of Enter in #urlInput
PressEnter(a, typed) ==
    /\ app = "ready"
    /\ startDownload(a, typed)

----------------------------------------------------------------------------
(* Resumed awaits *)

\* the activation returns through the finally block of startDownload; its
\* locals (url) are gone, the counts of what it did stay
Finished(act, outcome) ==
    [NoAct EXCEPT !.pc = "done", !.outcome = outcome, !.posts = act.posts,
                  !.gets = act.gets, !.committed = act.committed]

\* the POST succeeded: pollDownloadStatus sends its first status request
OnSubmitted(a) ==
    /\ acts' = [acts EXCEPT ![a] = [@ EXCEPT !.pc = "get", !.gets = 1]]
    /\ UNCHANGED <<statusLog, btnDisabled>>

\* a simulateDownload that rethrows, so that the catch of startDownload logs too
OnSubmitErrorRethrow(a, r) ==
    /\ statusLog' = logStatus(logStatus(statusLog, a, <<"Error: ", r.error>>, "error"),
                              a, <<"Error: ", r.error>>, "error")
    /\ acts' = [acts EXCEPT ![a] = [NoAct EXCEPT !.pc = "done", !.outcome = "submitError",
                                                 !.posts = acts[a].posts]]
    /\ btnDisabled' = FALSE

\* the POST failed: the catch of simulateDownload logs, simulateDownload
\* returns normally, the finally of startDownload enables the button
OnSubmitError(a, r) ==
    /\ statusLog' = logStatus(statusLog, a, <<"Error: ", r.error>>, "error")
    /\ acts' = [acts EXCEPT ![a] = Finished(@, "submitError")]
    /\ btnDisabled' = FALSE

\* await fetch(POST /download) and await response.json() settle
PostResponse(a, r) ==
    /\ acts[a].pc = "post"
    /\ IF TotalGets >= MaxGets THEN r.kind # "ok" ELSE TRUE
    /\ IF r.kind = "ok" THEN OnSubmitted(a) ELSE OnSubmitError(a, r)
    /\ UNCHANGED <<app, currentPlatform, urlInput, downloads, storage, domList,
                   clock, nActs>>

\* a catch that logs and lets the loop go on to another request after a delay
OnQueryErrorRetry(a, r) ==
    /\ statusLog' = logStatus(statusLog, a, <<"Status check failed: ", r.error>>, "error")
    /\ acts' = [acts EXCEPT ![a] = [@ EXCEPT !.pc = "delay"]]
    /\ UNCHANGED <<btnDisabled, urlInput, downloads, storage, domList, clock>>

\* the status request failed: the catch in the loop logs and breaks
OnQueryError(a, r) ==
    /\ statusLog' = logStatus(statusLog, a, <<"Status check failed: ", r.error>>, "error")
    /\ acts' = [acts EXCEPT ![a] = Finished(@, "queryError")]
    /\ btnDisabled' = FALSE
    /\ UNCHANGED <<urlInput, downloads, storage, domList, clock>>

\* a completed branch that logs a single success line
LogSuccessOnce(log, a) ==
    logStatus(log, a, <<"[SUCCESS] Download completed!">>, "success")

\* the two success lines of the completed branch
LogSuccess(log, a) ==
    logStatus(logStatus(log, a, <<"[SUCCESS] Download completed!">>, "success"),
              a, <<"Files ready for download">>, "success")

\* status "completed": two success lines, the record is built from the status,
\* this.currentPlatform and url, addDownload, the input is cleared, break.
\* When setItem throws inside addDownload the catch in the loop logs and
\* breaks, and the input keeps its text.
OnCompleted(a, status, writeOk) ==
    /\ addDownload(DownloadData(status, currentPlatform, acts[a].url, clock + 1), writeOk)
    /\ IF writeOk
       THEN /\ statusLog' = LogSuccess(statusLog, a)
            /\ urlInput' = <<>>
            /\ acts' = [acts EXCEPT ![a] =
                   Finished([@ EXCEPT !.committed = @ + 1], "completed")]
       ELSE /\ statusLog' = logStatus(LogSuccess(statusLog, a), a,
                   <<"Status check failed: ", "QuotaExceededError">>, "error")
            /\ UNCHANGED urlInput
            /\ acts' = [acts EXCEPT ![a] =
                   Finished([@ EXCEPT !.committed = @ + 1], "writeFailed")]
    /\ btnDisabled' = FALSE

\* an error branch that also empties the input, as the completed branch does
OnFailedClearInput(a, status) ==
    /\ statusLog' = logStatus(statusLog, a, <<"Error: ", status.error>>, "error")
    /\ acts' = [acts EXCEPT ![a] = Finished(@, "failed")]
    /\ btnDisabled' = FALSE
    /\ urlInput' = <<>>
    /\ UNCHANGED <<downloads, storage, domList, clock>>

\* status "error": one error line with the backend's reason, break
OnFailed(a, status) ==
    /\ statusLog' = logStatus(statusLog, a, <<"Error: ", status.error>>, "error")
    /\ acts' = [acts EXCEPT ![a] = Finished(@, "failed")]
    /\ btnDisabled' = FALSE
    /\ UNCHANGED <<urlInput, downloads, storage, domList, clock>>

\* a loop that records the download at every status it reads, not only at
\* the completed one
OnPendingCommit(a, status) ==
    /\ statusLog' = logStatus(statusLog, a, <<"[PLATFORM] ", status.status>>, "info")
    /\ acts' = [acts EXCEPT ![a] = [@ EXCEPT !.pc = "delay"]]
    /\ addDownload(DownloadData(status, currentPlatform, acts[a].url, clock + 1), TRUE)
    /\ UNCHANGED <<btnDisabled, urlInput>>

\* a loop that leaves at a status that is not terminal
OnPendingBreak(a, status) ==
    /\ statusLog' = logStatus(statusLog, a, <<"[PLATFORM] ", status.status>>, "info")
    /\ acts' = [acts EXCEPT ![a] = Finished(@, "pending")]
    /\ btnDisabled' = FALSE
    /\ UNCHANGED <<urlInput, downloads, storage, domList, clock>>

\* any other status: one info line (its platform tag is left out of the
\* model), then await delay(1000)
OnPending(a, status) ==
    /\ statusLog' = logStatus(statusLog, a, <<"[PLATFORM] ", status.status>>, "info")
    /\ acts' = [acts EXCEPT ![a] = [@ EXCEPT !.pc = "delay"]]
    /\ UNCHANGED <<btnDisabled, urlInput, downloads, storage, domList, clock>>

\* await fetch(GET /status/<id>) and await response.json() settle: one pass
\* through the body of the while loop of pollDownloadStatus.  writeOk is whether
\* localStorage accepts the write of a completed download.
StatusResponse(a, r, writeOk) ==
    /\ acts[a].pc = "get"
    /\ IF TotalGets >= MaxGets THEN Terminal(r) ELSE TRUE
    /\ IF Completed(r) THEN TRUE ELSE writeOk
    /\ IF r.kind = "reject" THEN OnQueryError(a, r)
       ELSE IF r.body.status = "completed" THEN OnCompleted(a, r.body, writeOk)
       ELSE IF r.body.status = "error" THEN OnFailed(a, r.body)
       ELSE OnPending(a, r.body)
    /\ UNCHANGED <<app, currentPlatform, nActs>>

\* a loop that sends two status requests when the timer fires
DelayElapsedTwoRequests(a) ==
    /\ acts[a].pc = "delay"
    /\ acts' = [acts EXCEPT ![a] = [@ EXCEPT !.pc = "get", !.gets = @ + 2]]
    /\ UNCHANGED <<app, currentPlatform, urlInput, btnDisabled, downloads, storage,
                   domList, clock, nActs, statusLog>>

\* the timer of delay(1000) fires: the loop sends the next status request
DelayElapsed(a) ==
    /\ acts[a].pc = "delay"
    /\ acts' = [acts EXCEPT ![a] = [@ EXCEPT !.pc = "get", !.gets = @ + 1]]
    /\ UNCHANGED <<app, currentPlatform, urlInput, btnDisabled, downloads, storage,
                   domList, clock, nActs, statusLog>>

----------------------------------------------------------------------------
(* The page *)

Next ==
    \/ Construct
    \/ \E p \in SelectablePlatforms : selectPlatform(p)
    \/ \E a \in Acts, u \in UrlInputs : ClickDownload(a, u)
    \/ \E a \in Acts, u \in UrlInputs : PressEnter(a, u)
    \/ \E a \in Acts, r \in PostResponses : PostResponse(a, r)
    \/ \E a \in Acts, r \in StatusResponses, w \in BOOLEAN : StatusResponse(a, r, w)
    \/ \E a \in Acts : DelayElapsed(a)

Spec == Init /\ [][Next]_vars

----------------------------------------------------------------------------
(* The history store on its own: any sequence of addDownload calls on a page
   that loaded with no stored history *)

\* the completed statuses a record may be built from
CommitBodies ==
    { [status |-> "completed", title |-> "Song", output_path |-> "/out/song",
       files |-> <<"song.mp3">>],
      [status |-> "completed"] }

InitHistory ==
    /\ app = "ready"
    /\ currentPlatform = "spotify"
    /\ urlInput = <<>>
    /\ btnDisabled = FALSE
    /\ downloads = <<>>
    /\ storage = StoreAbsent
    /\ domList = <<>>
    /\ clock = 0
    /\ nActs = 0
    /\ acts = [a \in Acts |-> NoAct]
    /\ statusLog = logStatus([w \in 0..MaxActs |-> <<>>], 0,
                             <<"Media Downloader initialized">>, "info")

Commit(status, writeOk) ==
    /\ clock < MaxCommits
    /\ addDownload(DownloadData(status, currentPlatform, SpotifyUrl, clock + 1), writeOk)
    /\ UNCHANGED <<app, currentPlatform, urlInput, btnDisabled, nActs, acts, statusLog>>

NextHistory == \E b \in CommitBodies, w \in BOOLEAN : Commit(b, w)

SpecHistory == InitHistory /\ [][NextHistory]_vars

----------------------------------------------------------------------------
(* validateUrl under every platform id: selectPlatform stores whatever
   data-platform value the clicked button carries, and startDownload validates
   the typed url against it *)

\* data-platform values for which validateUrl has no pattern of its own
UnknownPlatforms == {"soundcloud"} \cup InheritedKeys

PlatformIds == KnownPlatforms \cup UnknownPlatforms

NextValidate ==
    \/ \E p \in PlatformIds : selectPlatform(p)
    \/ \E a \in Acts, u \in UrlInputs : ClickDownload(a, u)
    \/ \E a \in Acts, u \in UrlInputs : PressEnter(a, u)

SpecValidate == InitHistory /\ [][NextValidate]_vars

----------------------------------------------------------------------------
(* The loaded page with its scheduling: every request the page has sent is
   settled at some time (the promise of fetch resolves or rejects), and a timer
   that was set fires.  The backend answers terminally once MaxGets status
   requests were served.  The platform stays the one selected at load: the
   selection decides which urls are accepted and nothing of what an accepted
   submission does next. *)

NextLive ==
    \/ \E a \in Acts, u \in UrlInputs : ClickDownload(a, u)
    \/ \E a \in Acts, u \in UrlInputs : PressEnter(a, u)
    \/ \E a \in Acts, r \in PostResponses : PostResponse(a, r)
    \/ \E a \in Acts, r \in StatusResponses, w \in BOOLEAN : StatusResponse(a, r, w)
    \/ \E a \in Acts : DelayElapsed(a)

Fairness ==
    \A a \in Acts :
        /\ WF_vars(\E r \in PostResponses : PostResponse(a, r))
        /\ WF_vars(\E r \in StatusResponses, w \in BOOLEAN : StatusResponse(a, r, w))
        /\ WF_vars(DelayElapsed(a))

SpecLive == InitHistory /\ [][NextLive]_vars /\ Fairness

----------------------------------------------------------------------------
(* Claims *)

Types(log) == [i \in 1..Len(log) |-> log[i].type]

\* C1: at most one polling session exists at any time: a startDownload
\* triggered while an accepted submission has not finished is not accepted, so
\* no two activations are ever submitting or polling together.
C1_SingleFlight == Cardinality({a \in Acts : Active(a)}) <= 1

\* C3: the history, in memory and persisted, never holds more than 10 records;
\* after 11 commits from an empty history the 11th record is at the head and
\* the first is gone (from the persisted sequence too, once the 11th is written).
C3_Capacity ==
    /\ Len(downloads) <= MaxHistory
    /\ Len(storage.val) <= MaxHistory
    /\ clock = MaxHistory + 1 =>
         /\ downloads[1].timestamp = MaxHistory + 1
         /\ \A i \in DOMAIN downloads : downloads[i].timestamp # 1
         /\ (storage.val # <<>> /\ storage.val[1].timestamp = MaxHistory + 1) =>
              \A i \in DOMAIN storage.val : storage.val[i].timestamp # 1

\* eleven commits were made to the empty history and the store is full
C3_Witness == clock = MaxHistory + 1 /\ Len(downloads) = MaxHistory

NewestFirst(ds) ==
    \A i, j \in DOMAIN ds : i < j => ds[i].timestamp > ds[j].timestamp

\* C4: the history is newest first after any sequence of commits (a record
\* committed later stands before every record committed earlier), and a commit
\* moves each record that stays one place down without altering it.
C4_NewestFirst ==
    /\ []NewestFirst(downloads)
    /\ [][downloads' # downloads =>
            /\ Len(downloads') >= 1
            /\ \A i \in 2..Len(downloads') : downloads'[i] = downloads[i - 1]]_vars

\* several commits were made and the oldest records were truncated away
C4_Witness ==
    /\ clock = MaxHistory + 2
    /\ Len(downloads) = MaxHistory
    /\ downloads[1].timestamp = MaxHistory + 2
    /\ downloads[MaxHistory].timestamp = 3

\* C2: when a status query fails during polling (the catch of the loop logs
\* "Status check failed" for the failed request), the activation returns, it
\* has committed no record, and the history in memory and in localStorage is
\* left as it was.
C2_QueryErrorNoRecord ==
    [][\A a \in Acts :
        (/\ acts[a].pc = "get"
         /\ statusLog'[a] = Append(statusLog[a],
                Ev("error", <<"Status check failed: ", "Failed to fetch">>)))
        => /\ acts'[a].pc = "done"
           /\ acts'[a].committed = 0
           /\ downloads' = downloads
           /\ storage' = storage]_vars

\* a polling loop that had seen a pending status ended on a failed query
C2_Witness ==
    \E a \in Acts : /\ acts[a].outcome = "queryError"
                    /\ acts[a].gets >= 2
                    /\ Types(statusLog[a])[Len(statusLog[a])] = "error"

\* n info events followed by the two success events
InfosThenSuccess(n) ==
    [i \in 1..(n + 2) |-> IF i <= n THEN "info" ELSE "success"]

\* the step in which activation a handles a completed status
CompletedStep(a) ==
    /\ acts[a].pc = "get"
    /\ acts'[a].outcome \in {"completed", "writeFailed"}

RejectedStart ==
    /\ nActs' = nActs + 1
    /\ \/ Trim(urlInput') = <<>>
       \/ ~RegexTest(Patterns(currentPlatform), Trim(urlInput'))

\* C6: a submission with an empty trimmed URL or a URL that does not match the
\* selected platform's pattern emits exactly one error event and nothing else:
\* no request is sent, no activation becomes active, the button and the
\* history are left as they were.
C6_RejectedSubmission ==
    [][RejectedStart =>
        /\ Types(statusLog'[nActs']) = <<"error">>
        /\ \A w \in 0..MaxActs : w # nActs' => statusLog'[w] = statusLog[w]
        /\ acts'[nActs'].pc = "done"
        /\ acts'[nActs'].posts = 0
        /\ acts'[nActs'].gets = 0
        /\ \A b \in Acts : b # nActs' => acts'[b] = acts[b]
        /\ btnDisabled' = btnDisabled
        /\ downloads' = downloads
        /\ storage' = storage]_vars

\* one submission was rejected for its empty input, one for a mismatch
C6_Witness ==
    \E a, b \in Acts :
        /\ acts[a].outcome = "rejected" /\ acts[b].outcome = "rejected"
        /\ statusLog[a] = <<Ev("error", <<"Please enter a URL">>)>>
        /\ statusLog[b] = <<Ev("error", <<"Invalid URL for selected platform">>)>>

\* C7: when the submit call fails, the activation returns at once with exactly
\* one error event, one POST sent, no status request and no record, the button
\* is enabled, the history is untouched, and a returned activation does
\* nothing more.
C7_SubmitError ==
    [][\A a \in Acts :
        /\ (acts[a].pc = "post" /\ acts'[a] # acts[a] /\ acts'[a].pc # "get") =>
             /\ acts'[a].pc = "done"
             /\ acts'[a].posts = 1
             /\ acts'[a].gets = 0
             /\ acts'[a].committed = 0
             /\ Types(statusLog'[a]) = <<"error">>
             /\ btnDisabled' = FALSE
             /\ downloads' = downloads
             /\ storage' = storage
        /\ acts[a].pc = "done" =>
             /\ acts'[a] = acts[a]
             /\ statusLog'[a] = statusLog[a]]_vars

\* a submission failed at the POST, for each kind of failure
C7_Witness ==
    \E a, b \in Acts :
        /\ acts[a].outcome = "submitError" /\ acts[b].outcome = "submitError"
        /\ statusLog[a] = <<Ev("error", <<"Error: ", "unsupported url">>)>>
        /\ statusLog[b] = <<Ev("error", <<"Error: ", "Failed to fetch">>)>>
        /\ ~btnDisabled

\* C8: a stored history that cannot be parsed never blocks startup: once the
\* constructor has run the page is ready with an empty history.
C8_LoadFailsOpen ==
    (storage.kind = "corrupt" /\ app # "boot") => (app = "ready" /\ downloads = <<>>)

\* C9: the button is disabled exactly while some accepted submission is
\* submitting or polling.
C9_ButtonLockstep == app = "ready" => (btnDisabled <=> ~Idle)

\* C10: whenever addDownload has returned or aborted, localStorage holds the
\* in-memory history.
C10_MemoryEqualsPersisted == app = "ready" => storage.val = Stringify(downloads)

\* C11: when a status query reports status "error", the activation emits
\* exactly one event, an error carrying the backend's reason, and returns; it
\* has committed no record, the history in memory and in localStorage and the
\* text of the URL input are left as they were.
C11_FailedStatus ==
    [][\A a \in Acts :
        (/\ acts[a].pc = "get"
         /\ \/ acts'[a].outcome = "failed"
            \/ /\ Len(statusLog'[a]) > Len(statusLog[a])
               /\ statusLog'[a][Len(statusLog[a]) + 1].msg[1] = "Error: ")
        => /\ statusLog'[a] = Append(statusLog[a],
                                     Ev("error", <<"Error: ", "download failed">>))
           /\ acts'[a].pc = "done"
           /\ acts'[a].committed = 0
           /\ downloads' = downloads
           /\ storage' = storage
           /\ domList' = domList
           /\ urlInput' = urlInput]_vars

\* a polling loop that had seen a pending status ended on status "error", and
\* the input still holds the submitted text
C11_Witness ==
    \E a \in Acts : /\ acts[a].outcome = "failed"
                    /\ acts[a].gets >= 2
                    /\ statusLog[a][Len(statusLog[a])] =
                         Ev("error", <<"Error: ", "download failed">>)
                    /\ Trim(urlInput) = SpotifyUrl

\* the step is a startDownload that gets as far as calling validateUrl
ValidateStep == nActs' = nActs + 1 /\ Trim(urlInput') # <<>>

\* C12: validateUrl is total and pure.  Under a platform that is not one of
\* the five known ones it returns false without throwing (startDownload logs
\* the invalid-URL error and returns); its result depends on the pair
\* (platform, url) only (the submission is accepted exactly when the url
\* matches the platform's pattern); and the call changes no state: the current
\* platform, the history, the other emitters' log and, unless the submission
\* goes on to be accepted, the button are as before.
C12_ValidateTotalPure ==
    [][ValidateStep =>
        /\ currentPlatform \notin KnownPlatforms =>
              statusLog'[nActs'] =
                  <<Ev("error", <<"Invalid URL for selected platform">>)>>
        /\ acts'[nActs'].outcome # "threw"
        /\ acts'[nActs'].pc = "post" <=>
              RegexTest(Patterns(currentPlatform), Trim(urlInput'))
        /\ currentPlatform' = currentPlatform
        /\ downloads' = downloads
        /\ storage' = storage
        /\ \A w \in 0..MaxActs : w # nActs' => statusLog'[w] = statusLog[w]
        /\ acts'[nActs'].pc # "post" => btnDisabled' = btnDisabled]_vars

\* the step in which the polling loop of activation a reads a completed
\* status: the first success line is appended to its log
ObservesCompleted(a) ==
    /\ acts[a].pc = "get"
    /\ Len(statusLog'[a]) > Len(statusLog[a])
    /\ statusLog'[a][Len(statusLog[a]) + 1] =
           Ev("success", <<"[SUCCESS] Download completed!">>)

\* C13: once the page is loaded, the history in memory and in localStorage
\* changes only in a step in which a polling loop reads a completed status;
\* every such step commits exactly one new record (the commit count grows by
\* the number of completed statuses read, the records that stay are shifted
\* unaltered), and no activation commits more than one record.
C13_CommitOnlyOnCompleted ==
    /\ [](\A a \in Acts : acts[a].committed <= 1)
    /\ [][app = "ready" =>
            LET obs == {a \in Acts : ObservesCompleted(a)} IN
            /\ (downloads' # downloads \/ storage' # storage) => obs # {}
            /\ clock' = clock + Cardinality(obs)
            /\ \A a \in Acts : acts'[a].committed =
                   acts[a].committed + (IF a \in obs THEN 1 ELSE 0)
            /\ obs # {} =>
                   /\ Len(downloads') = IF Len(downloads) < MaxHistory
                                        THEN Len(downloads) + 1 ELSE MaxHistory
                   /\ downloads'[1].timestamp = clock'
                   /\ \A i \in 2..Len(downloads') : downloads'[i] = downloads[i - 1]
                   /\ storage' # storage => storage'.val = Stringify(downloads')]_vars

\* two submissions have each read a completed status and committed a record
C13_Witness ==
    \E a, b \in Acts :
        /\ a # b
        /\ acts[a].committed = 1 /\ acts[b].committed = 1
        /\ acts[a].pc = "done" /\ acts[b].pc = "done"
        /\ Len(downloads) >= 2
        /\ downloads[1].timestamp = clock
        /\ downloads[2].timestamp = clock - 1

\* the step in which the polling loop of activation a reads a terminal outcome:
\* a line of severity success or error is appended to its log
ObservesTerminal(a) ==
    /\ acts[a].pc = "get"
    /\ Len(statusLog'[a]) > Len(statusLog[a])
    /\ statusLog'[a][Len(statusLog[a]) + 1].type \in {"success", "error"}

\* C14: a polling loop that has read a terminal outcome (completed, error, or
\* a failed status query) ends in that step, and an activation that has ended
\* sends no status request any more: its count of requests stays what it was
\* when the terminal outcome was read.
C14_NoPollAfterTerminal ==
    [][\A a \in Acts :
        /\ ObservesTerminal(a) =>
             /\ acts'[a].pc = "done"
             /\ acts'[a].gets = acts[a].gets
        /\ acts[a].pc = "done" =>
             /\ acts'[a].pc = "done"
             /\ acts'[a].gets = acts[a].gets]_vars

\* one polling loop ended on a failed status query at its first request, and
\* the other submission has polled several times since
C14_Witness ==
    \E a, b \in Acts :
        /\ acts[a].outcome = "queryError"
        /\ acts[a].gets = 1
        /\ statusLog[a] = <<Ev("error", <<"Status check failed: ", "Failed to fetch">>)>>
        /\ b > a
        /\ acts[b].gets >= 2

\* C15: every accepted submission returns at some time (the backend answers
\* terminally in the end, or a status query fails), and the step in which it
\* returns enables the button; a polling loop has no other exit than a
\* terminal outcome: it returns only in a step that reads one, and a status
\* that is not terminal leaves it polling.
C15_EventuallyIdle ==
    /\ \A a \in Acts : Active(a) ~> (acts[a].pc = "done")
    /\ [][\A a \in Acts :
            /\ (Active(a) /\ acts'[a].pc = "done") => btnDisabled' = FALSE
            /\ (acts[a].pc \in {"get", "delay"} /\ acts'[a].pc = "done") =>
                   ObservesTerminal(a)
            /\ (acts[a].pc = "get" /\ acts'[a] # acts[a] /\ ~ObservesTerminal(a)) =>
                   acts'[a].pc = "delay"
            /\ (acts[a].pc = "delay" /\ acts'[a] # acts[a]) =>
                   acts'[a].pc = "get"]_vars

\* an accepted submission polled until the backend stopped answering with a
\* pending status, then returned, and the button is enabled
C15_Witness ==
    \E a \in Acts : /\ acts[a].pc = "done"
                    /\ acts[a].gets = MaxGets
                    /\ acts[a].outcome \in {"completed", "failed", "queryError"}
                    /\ ~btnDisabled

\* the number of info events in a log
Infos(log) == Cardinality({i \in DOMAIN log : log[i].type = "info"})

\* C16: a status response that is neither completed nor error appends exactly
\* one info event and sends nothing; the delay that follows ends in exactly one
\* further status request, and it does end; the requests a polling loop has
\* sent never exceed the pending statuses it has read by more than one, so it
\* never has two requests outstanding.
C16_OneRequestPerTick ==
    /\ [](\A a \in Acts : acts[a].gets >= 1 =>
            acts[a].gets - Infos(statusLog[a]) =
                IF acts[a].pc = "delay" THEN 0 ELSE 1)
    /\ [][\A a \in Acts :
            /\ (acts[a].pc = "get" /\ acts'[a] # acts[a] /\ ~ObservesTerminal(a)) =>
                   /\ statusLog'[a] = Append(statusLog[a],
                           Ev("info", <<"[PLATFORM] ", "processing">>))
                   /\ acts'[a].pc = "delay"
                   /\ acts'[a].gets = acts[a].gets
            /\ (acts[a].pc = "delay" /\ acts'[a] # acts[a]) =>
                   /\ acts'[a].pc = "get"
                   /\ acts'[a].gets = acts[a].gets + 1
                   /\ statusLog'[a] = statusLog[a]]_vars
    /\ \A a \in Acts : (acts[a].pc = "delay") ~> (acts[a].pc = "get")

\* a polling loop has read two pending statuses and its third request is out
C16_Witness ==
    \E a \in Acts : /\ acts[a].pc = "get"
                    /\ acts[a].gets = 3
                    /\ Types(statusLog[a]) = <<"info", "info">>

\* C17: the record committed when activation a reads a completed status
\* carries the platform and the url that a sent in its POST /download,
\* whatever platform is selected by then.
C17_RecordCarriesRequest ==
    [][\A a \in Acts : ObservesCompleted(a) =>
        /\ downloads'[1].platform = acts[a].platform
        /\ downloads'[1].url = acts[a].url]_vars

\* C18: the platform in the body of POST /download is the platform the url was
\* validated against: the step that accepts a submission reads the selected
\* platform once, for both, and leaves it selected; while the request or the
\* polling is pending the url sent matches the pattern of the platform sent.
C18_PostPlatformIsValidated ==
    /\ [](\A a \in Acts : Active(a) =>
            /\ acts[a].platform = acts[a].validated
            /\ RegexTest(Patterns(acts[a].platform), acts[a].url))
    /\ [][(nActs' = nActs + 1 /\ acts'[nActs'].pc = "post") =>
            /\ acts'[nActs'].validated = currentPlatform
            /\ acts'[nActs'].platform = currentPlatform
            /\ acts'[nActs'].url = Trim(urlInput')
            /\ currentPlatform' = currentPlatform]_vars

\* a POST is pending for a submission validated as spotify, and another
\* platform has been selected since
C18_Witness ==
    \E a \in Acts : /\ acts[a].pc = "post"
                    /\ acts[a].platform = "spotify"
                    /\ acts[a].url = SpotifyUrl
                    /\ currentPlatform = "youtube-audio"

====
